---------------------------- MODULE Spec2Model ----------------------------
(***************************************************************************)
(* Congestion forecasting of Trafico-y-balenbisi: the Markov forecast of   *)
(* markov.py, the feature builders and the logistic-regression trainers of *)
(* ml_model.py / ml_modelos.py, and the cached model of app.py.            *)
(*                                                                         *)
(* A table (pandas DataFrame) is a sequence of rows                        *)
(* [timestamp |-> t, estado |-> s] in the order the caller supplies them.  *)
(* Probabilities are exact rationals <<num, den>> in lowest terms; the     *)
(* code computes the same quantities in IEEE doubles.                      *)
(***************************************************************************)
EXTENDS Integers, Sequences, FiniteSets

VARIABLES
    df,             \* the table a library function is called with
    out,            \* what that call returned or raised
    csv,            \* trafico_historico.csv: the rows appended so far
    traffic_cache,  \* st.cache_data(ttl=180) entry of load_traffic
    model_cache,    \* st.cache_resource entry of get_logreg_model
    shown           \* what the last run of the dashboard script displayed

libvars == <<df, out>>
appvars == <<csv, traffic_cache, model_cache, shown>>
vars == <<df, out, csv, traffic_cache, model_cache, shown>>

(***************************************************************************)
(* Bounds of the model.                                                    *)
(***************************************************************************)
MaxLen == 3
MaxPasos == 3
MaxPeriodicLen == 9
MaxOver == 1
MaxTail == 2
MaxSmallCsv == 2
TickSeconds == 60

\* State codes a feed can deliver: the four valid ones and one on each side.
RawStates == {-1, 0, 1, 2, 3, 4}

(***************************************************************************)
(* Exact rational arithmetic.                                              *)
(***************************************************************************)
RECURSIVE GCD(_, _)
GCD(a, b) == IF b = 0 THEN a ELSE GCD(b, a % b)

Rat(n, d) == LET g == GCD(n, d) IN <<n \div g, d \div g>>
Zero == <<0, 1>>
One == <<1, 1>>
\* Both reduce before they multiply, to stay within TLC's 32-bit integers.
RAdd(a, b) == LET g == GCD(a[2], b[2])
              IN  Rat(a[1] * (b[2] \div g) + b[1] * (a[2] \div g), (a[2] \div g) * b[2])
RMul(a, b) == LET g == GCD(a[1], b[2])
                  h == GCD(b[1], a[2])
              IN  <<(a[1] \div g) * (b[1] \div h), (a[2] \div h) * (b[2] \div g)>>

(***************************************************************************)
(* markov.py                                                               *)
(***************************************************************************)
estados == 0..3

\* A vector over estados is the tuple <<x0, x1, x2, x3>>: state i is at
\* position i + 1.  A matrix is the tuple of its four rows.
At(v, i) == v[i + 1]
Vec(f(_)) == <<f(0), f(1), f(2), f(3)>>

RowSum(row) == RAdd(RAdd(row[1], row[2]), RAdd(row[3], row[4]))

\* The sequence s with every element evaluated.
Materialize(s) == SubSeq(s, 1, Len(s))

\* The rows left in the order supplied: the sort forgotten.
sort_values_omitted(d) == d

\* df.sort_values('timestamp'): ascending by timestamp (timestamps distinct).
sort_values(d) ==
    LET n == Len(d)
        rank == Materialize([i \in 1..n |->
                    Cardinality({j \in 1..n : d[j].timestamp < d[i].timestamp}) + 1])
    IN  Materialize([k \in 1..n |-> d[CHOOSE i \in 1..n : rank[i] = k]])

\* df['next'] = df['estado'].shift(-1); dropna(subset=['next']): the rows
\* that have a successor, each paired with it.
trans(d) == Materialize([k \in 1..(IF Len(d) = 0 THEN 0 ELSE Len(d) - 1) |->
                [estado |-> d[k].estado, next |-> d[k + 1].estado]])

\* The loop over trans: only pairs with both ends in estados are counted.
cuentas(t, i, j) ==
    Cardinality({k \in 1..Len(t) : /\ t[k].estado \in estados
                                   /\ t[k].next \in estados
                                   /\ t[k].estado = i /\ t[k].next = j})

total_por_estado(t, i) ==
    Cardinality({k \in 1..Len(t) : /\ t[k].estado \in estados
                                   /\ t[k].next \in estados
                                   /\ t[k].estado = i})

\* P starts as zeros; a row is filled only when total > 0.
TransitionMatrix(t) ==
    LET row(i) ==
            LET total == total_por_estado(t, i)
                entry(j) == IF total > 0 THEN Rat(cuentas(t, i, j), total) ELSE Zero
            IN  Vec(entry)
    IN  Vec(row)

OneHot(i) == LET e(j) == IF i = j THEN One ELSE Zero IN Vec(e)
Identity == Vec(OneHot)

\* v.dot(M): the row vector v times the matrix M.
dot(v, M) ==
    LET entry(j) == RAdd(RAdd(RMul(v[1], At(M[1], j)), RMul(v[2], At(M[2], j))),
                         RAdd(RMul(v[3], At(M[3], j)), RMul(v[4], At(M[4], j))))
    IN  Vec(entry)

MatMul(A, B) == LET row(i) == dot(At(A, i), B) IN Vec(row)

\* The power started from M instead of the identity: one step too many.
RECURSIVE matrix_power_one_more(_, _)
matrix_power_one_more(M, n) ==
    IF n = 0 THEN M ELSE MatMul(matrix_power_one_more(M, n - 1), M)

\* np.linalg.matrix_power(P, n), n >= 0.
RECURSIVE matrix_power(_, _)
matrix_power(M, n) == IF n = 0 THEN Identity ELSE MatMul(matrix_power(M, n - 1), M)

\* v0 = np.zeros(4); v0[ultimo] = 1.0.  numpy takes an index in -4..-1 from
\* the end and raises IndexError for any other index outside 0..3.
OneHotIndex(ultimo) == IF ultimo < 0 THEN ultimo + 4 ELSE ultimo

\* The table always has the columns 'timestamp' and 'estado' (the KeyError
\* of a table without them is not modelled) and pasos >= 1.  An empty table
\* fails at df['estado'].iloc[-1].
predict_congestion(current_df, pasos) ==
    LET d == sort_values(current_df)
        t == trans(d)
        P == TransitionMatrix(t)
        counted == Cardinality({k \in 1..Len(t) :
                        t[k].estado \in estados /\ t[k].next \in estados})
    IN  IF Len(d) = 0
        THEN [call |-> "predict_congestion", kind |-> "raise", exc |-> "IndexError",
              pasos |-> pasos]
        ELSE LET ultimo == d[Len(d)].estado IN
             IF ultimo \notin -4..3
             THEN [call |-> "predict_congestion", kind |-> "raise",
                   exc |-> "IndexError", pasos |-> pasos]
             ELSE LET v0 == OneHot(OneHotIndex(ultimo))
                      Pn == matrix_power(P, pasos)
                      pi_n == dot(v0, Pn)
                  IN  [call |-> "predict_congestion", kind |-> "return",
                       value |-> At(pi_n, 2), pasos |-> pasos, P |-> P,
                       pi_n |-> pi_n, ultimo |-> ultimo,
                       v0_index |-> OneHotIndex(ultimo), counted |-> counted]

(***************************************************************************)
(* ml_model.py and ml_modelos.py                                           *)
(***************************************************************************)
PASOS_ADELANTE == 15
MinRows == 100

\* Timestamp k is minute k of 1970-01-01 (a Thursday, dayofweek 3).
hora(ts) == (ts \div 60) % 24
diasem(ts) == ((ts \div 1440) + 3) % 7

\* The columns both feature builders add, on the rows in the order given:
\* objetivo = (estado.shift(-pasos) >= 2).astype(int).  The shifted column
\* is NaN on the last `pasos` rows, NaN >= 2 is False, and astype(int)
\* makes it 0: no row holds a NaN, so the dropna that follows drops none.
Features(d, pasos) ==
    Materialize([k \in 1..Len(d) |->
        [estado |-> d[k].estado,
         hora |-> hora(d[k].timestamp),
         diasem |-> diasem(d[k].timestamp),
         objetivo |-> IF k + pasos <= Len(d) /\ d[k + pasos].estado >= 2
                      THEN 1 ELSE 0]])

\* ml_model.preparar_features: sorts by timestamp first.
ml_model_preparar_features(d, pasos) == Features(sort_values(d), pasos)

\* ml_modelos.preparar_features: no sort, the rows are used as supplied.
ml_modelos_preparar_features(d, pasos) == Features(d, pasos)

Positives(Xy) == Cardinality({k \in 1..Len(Xy) : Xy[k].objetivo = 1})

UnitMetric == "metric in [0,1]"

Raise(exc, at) == [kind |-> "raise", exc |-> exc, at |-> at]

\* train_test_split(X, y, test_size=0.25, random_state=42, stratify=y), the
\* pipeline's fit and the two metrics, as scikit-learn defines them:
\*  - n_test = ceil(0.25 n), n_train = floor(0.75 n); an empty train set, a
\*    class with a single member, or fewer test or train rows than classes
\*    is a ValueError;
\*  - each class gets floor(count * n_train / n) train rows and the rows
\*    left over go to the classes with the largest remainder, a tie being
\*    broken by the seeded generator (both outcomes are kept here);
\*  - LogisticRegression.fit raises ValueError on a single-class train set;
\*  - roc_auc_score on a single-class test set raises ValueError or, in
\*    later releases, returns NaN.
FitOutcomes(Xy) ==
    LET n == Len(Xy)
        pos == Positives(Xy)
        neg == n - pos
        n_test == (n + 3) \div 4
        n_train == (3 * n) \div 4
        n_classes == IF pos > 0 /\ neg > 0 THEN 2 ELSE 1
        least == IF n_classes = 2 THEN (IF pos < neg THEN pos ELSE neg) ELSE n
        floor_pos == (pos * n_train) \div n
        floor_neg == (neg * n_train) \div n
        rem_pos == (pos * n_train) % n
        rem_neg == (neg * n_train) % n
        need == n_train - floor_pos - floor_neg
        train_pos == IF need = 0 THEN {floor_pos}
                     ELSE IF rem_pos > rem_neg THEN {floor_pos + 1}
                     ELSE IF rem_pos < rem_neg THEN {floor_pos}
                     ELSE {floor_pos, floor_pos + 1}
        outcome(tp) ==
            LET train_neg == n_train - tp
                test_pos == pos - tp
                test_neg == n_test - test_pos
                pipe == [fit_rows |-> n, train_rows |-> n_train, train_pos |-> tp]
            IN  IF tp = 0 \/ train_neg = 0
                THEN {Raise("ValueError", "LogisticRegression.fit")}
                ELSE IF test_pos = 0 \/ test_neg = 0
                THEN {Raise("ValueError", "roc_auc_score"),
                      [kind |-> "return", pipe |-> pipe, acc |-> UnitMetric,
                       roc |-> "nan"]}
                ELSE {[kind |-> "return", pipe |-> pipe, acc |-> UnitMetric,
                       roc |-> UnitMetric]}
    IN  IF n = 0 \/ n_train = 0 \/ least < 2 \/ n_train < n_classes \/ n_test < n_classes
        THEN {Raise("ValueError", "train_test_split")}
        ELSE UNION {outcome(tp) : tp \in train_pos}

\* ml_model.entrenar_logreg: the gate is on the rows of df_hist.
ml_model_entrenar_logreg(df_hist) ==
    IF Len(df_hist) < MinRows
    THEN {Raise("ValueError", "Historico insuficiente")}
    ELSE FitOutcomes(ml_model_preparar_features(df_hist, PASOS_ADELANTE))

\* ml_modelos.entrenar_logreg: no gate.
ml_modelos_entrenar_logreg(df_hist) ==
    FitOutcomes(ml_modelos_preparar_features(df_hist, PASOS_ADELANTE))

(***************************************************************************)
(* app.py                                                                  *)
(***************************************************************************)
TrafficTTL == 180

\* Python's None where a fitted pipeline may stand.
None == [none |-> TRUE]

NoneTriple(warning) ==
    [modelo |-> None, acc |-> "None", roc |-> "None", warning |-> warning]

\* The body of get_logreg_model on a history file holding the rows `file`
\* (header line present): what one uncached call returns.
get_logreg_model(file) ==
    IF Len(file) < MinRows
    THEN {NoneTriple("Historico insuficiente para entrenar ML")}
    ELSE {IF o.kind = "raise"
          THEN NoneTriple("Error entrenando ML")
          ELSE [modelo |-> o.pipe, acc |-> o.acc, roc |-> o.roc, warning |-> "none"]
          : o \in ml_model_entrenar_logreg(file)}

\* df_traf["estado"].mode()[0]: the most frequent state, the smallest on a tie.
Mode(file) ==
    LET count(s) == Cardinality({k \in 1..Len(file) : file[k].estado = s})
    IN  CHOOSE s \in estados :
            /\ count(s) > 0
            /\ \A q \in estados : count(q) < count(s) \/ (count(q) = count(s) /\ s <= q)

\* The body of load_traffic: the history file when it holds rows, else the
\* remote feed, which answers with live records (of some most frequent
\* state) or fails, leaving an empty table.
load_traffic(file) ==
    IF Len(file) > 0
    THEN {[source |-> "csv", snapshot |-> Len(file), empty |-> FALSE,
           estado_actual |-> Mode(file)]}
    ELSE {[source |-> "api", snapshot |-> 0, empty |-> TRUE, estado_actual |-> -1]}
         \cup {[source |-> "api", snapshot |-> 0, empty |-> FALSE, estado_actual |-> s]
                : s \in estados}

\* Section 7 of the script: what is displayed for the loaded table and the
\* model triple.  run_rows records the rows the file held during the run.
Display(show_traf, df_traf, triple, run_rows) ==
    IF show_traf /\ triple.modelo # None /\ ~df_traf.empty
    THEN [kind |-> "prediction", modelo |-> triple.modelo, acc |-> triple.acc,
          roc |-> triple.roc, estado_actual |-> df_traf.estado_actual,
          data_snapshot |-> df_traf.snapshot, run_rows |-> run_rows]
    ELSE IF show_traf
    THEN [kind |-> "no disponible", run_rows |-> run_rows]
    ELSE [kind |-> "hidden", run_rows |-> run_rows]

(***************************************************************************)
(* Inputs and the state machine of the library calls.                      *)
(***************************************************************************)
\* The observations with the given states, a minute apart, oldest first.
Chronological(states) ==
    Materialize([k \in 1..Len(states) |-> [timestamp |-> k, estado |-> states[k]]])

Permutations(n) == {p \in [1..n -> 1..n] : \A i, j \in 1..n : i # j => p[i] # p[j]}
Shuffled(d, p) == Materialize([k \in 1..Len(d) |-> d[p[k]]])
Reversed(d) == Materialize([k \in 1..Len(d) |-> d[Len(d) + 1 - k]])

\* Histories of valid states, their rows supplied in every order (the
\* timestamps are pairwise distinct).
InRangeTables(n) ==
    {Shuffled(Chronological(st), p) : st \in [1..n -> estados], p \in Permutations(n)}

\* Histories of raw state codes, rows oldest first or newest first.
RawTables(n) ==
    {Chronological(st) : st \in [1..n -> RawStates]}
    \cup {Reversed(Chronological(st)) : st \in [1..n -> RawStates]}

Periodic(n) == Chronological([k \in 1..n |-> (k - 1) % 4])

\* The worked example of the specification: eight observations a minute apart.
ExampleStates == <<0, 0, 1, 2, 2, 1, 0, 0>>
ExampleHistory == Chronological(ExampleStates)

\* n rows in chronological order: state a, then state b on the last m rows.
Block(n, a, b, m) ==
    Materialize([k \in 1..n |-> [timestamp |-> k,
                                  estado |-> IF k <= n - m THEN a ELSE b]])

LongHistories ==
    {Block(n, a, b, m) : n \in (MinRows - 1)..(MinRows + MaxOver),
                         a \in estados, b \in estados, m \in 0..MaxTail}

Histories ==
    (UNION {InRangeTables(n) : n \in 0..MaxLen})
    \cup (UNION {RawTables(n) : n \in 0..MaxLen})
    \cup {Periodic(n) : n \in 5..MaxPeriodicLen}
    \cup {Reversed(Periodic(n)) : n \in 5..MaxPeriodicLen}
    \cup {ExampleHistory}
    \cup LongHistories

NoCall == [call |-> "none"]
NotRun == [kind |-> "not run"]
NoEntry == [cached |-> FALSE]

LibInit == /\ df \in Histories
           /\ out = NoCall
           /\ csv = <<>>
           /\ traffic_cache = NoEntry
           /\ model_cache = NoEntry
           /\ shown = NotRun

CallPredictCongestion ==
    /\ out.call = "none"
    /\ \E pasos \in 1..MaxPasos : out' = predict_congestion(df, pasos)
    /\ UNCHANGED <<df, appvars>>

CallPrepararFeatures ==
    /\ out.call = "none"
    /\ \E pasos \in 1..MaxPasos :
          out' = [call |-> "ml_model.preparar_features", kind |-> "return",
                  pasos |-> pasos, Xy |-> ml_model_preparar_features(df, pasos)]
    /\ UNCHANGED <<df, appvars>>

CallPrepararFeaturesModelos ==
    /\ out.call = "none"
    /\ \E pasos \in 1..MaxPasos :
          out' = [call |-> "ml_modelos.preparar_features", kind |-> "return",
                  pasos |-> pasos, Xy |-> ml_modelos_preparar_features(df, pasos)]
    /\ UNCHANGED <<df, appvars>>

CallEntrenarLogreg ==
    /\ out.call = "none"
    /\ \E o \in ml_model_entrenar_logreg(df) :
          out' = [call |-> "ml_model.entrenar_logreg", result |-> o]
    /\ UNCHANGED <<df, appvars>>

CallEntrenarLogregModelos ==
    /\ out.call = "none"
    /\ \E o \in ml_modelos_entrenar_logreg(df) :
          out' = [call |-> "ml_modelos.entrenar_logreg", result |-> o]
    /\ UNCHANGED <<df, appvars>>

\* get_logreg_model in a fresh process, the history file holding df.
CallGetLogregModel ==
    /\ out.call = "none"
    /\ \E r \in get_logreg_model(df) :
          out' = [call |-> "get_logreg_model", result |-> r]
    /\ UNCHANGED <<df, appvars>>

LibNext ==
    \/ CallPredictCongestion
    \/ CallPrepararFeatures
    \/ CallPrepararFeaturesModelos
    \/ CallEntrenarLogreg
    \/ CallEntrenarLogregModelos
    \/ CallGetLogregModel

Spec == LibInit /\ [][LibNext]_vars

(***************************************************************************)
(* The dashboard: the history file grows, time passes, the script reruns.  *)
(***************************************************************************)
AppBases == {<<>>} \cup {Block(MinRows - 2, a, a, 0) : a \in {0, 3}}

AppInit == /\ df = <<>>
           /\ out = NoCall
           /\ csv \in AppBases
           /\ traffic_cache = NoEntry
           /\ model_cache = NoEntry
           /\ shown = NotRun

\* The collector appends one observation to trafico_historico.csv.
AppendObservation ==
    /\ \/ Len(csv) < MaxSmallCsv
       \/ (Len(csv) >= MinRows - 2 /\ Len(csv) < MinRows + MaxOver)
    /\ \E s \in estados :
          csv' = Append(csv, [timestamp |-> Len(csv) + 1, estado |-> s])
    /\ UNCHANGED <<libvars, traffic_cache, model_cache, shown>>

\* Time passes; the cached table of load_traffic ages until its ttl.
Tick ==
    /\ traffic_cache.cached
    /\ traffic_cache.age < TrafficTTL
    /\ traffic_cache' = [traffic_cache EXCEPT !.age = @ + TickSeconds]
    /\ UNCHANGED <<libvars, csv, model_cache, shown>>

\* One run of the script: load_traffic() through st.cache_data(ttl=180),
\* get_logreg_model() through st.cache_resource, then the display.
Rerun ==
    \E show_traf \in BOOLEAN :
    \E t \in (IF traffic_cache.cached /\ traffic_cache.age < TrafficTTL
              THEN {traffic_cache}
              ELSE {[cached |-> TRUE, age |-> 0, value |-> v] : v \in load_traffic(csv)}) :
    \E m \in (IF model_cache.cached
              THEN {model_cache}
              ELSE {[cached |-> TRUE, value |-> r] : r \in get_logreg_model(csv)}) :
        /\ traffic_cache' = t
        /\ model_cache' = m
        /\ shown' = Display(show_traf, t.value, m.value, Len(csv))
        /\ UNCHANGED <<libvars, csv>>

AppNext == AppendObservation \/ Tick \/ Rerun

SpecApp == AppInit /\ [][AppNext]_vars

(***************************************************************************)
(* Properties of the library calls (specification Spec).                   *)
(***************************************************************************)
Range(seq) == {seq[k] : k \in 1..Len(seq)}

\* The latest observation of a table, whatever the order of its rows.
LatestRow(d) == CHOOSE r \in Range(d) : \A q \in Range(d) : q.timestamp <= r.timestamp

\* The observations of a table oldest first, by their timestamps 1..n.
RowAt(d, t) == CHOOSE r \in Range(d) : r.timestamp = t

Clip(s) == IF s < 0 THEN 0 ELSE IF s > 3 THEN 3 ELSE s

Departures(d, i) ==
    Cardinality({t \in 1..(Len(d) - 1) : RowAt(d, t).estado = i})

Max(a, b) == IF a > b THEN a ELSE b

Markov == out.call = "predict_congestion"
MarkovReturned == Markov /\ out.kind = "return"

\* C1: for a history of at least two observations with states in 0..3,
\* every row of the estimated matrix sums to 1, a row with no observed
\* departure being the self-loop.
C1_RowsSumToOne ==
    (Markov /\ Len(df) >= 2 /\ \A r \in Range(df) : r.estado \in estados)
    => /\ out.kind = "return"
       /\ \A i \in estados :
            /\ RowSum(At(out.P, i)) = One
            /\ Departures(df, i) = 0 => At(out.P, i) = OneHot(i)

\* C2: raw codes outside 0..3 are clipped, not skipped: every consecutive
\* pair is counted (len - 1 transitions) and the one-hot start is at the
\* clipped code of the latest observation; the call does not fail.
C2_RawCodesClipped ==
    (Markov /\ Len(df) >= 1)
    => /\ out.kind = "return"
       /\ out.counted = Len(df) - 1
       /\ out.v0_index = Clip(LatestRow(df).estado)

\* C3: the feature builder returns max(n - h, 0) examples, oldest first,
\* example i with current_state = state[i] and label 1 iff state[i+h] >= 2.
C3_TrailingRowsDiscarded ==
    out.call \in {"ml_model.preparar_features", "ml_modelos.preparar_features"}
    => /\ Len(out.Xy) = Max(Len(df) - out.pasos, 0)
       /\ \A i \in 1..Len(out.Xy) :
            /\ out.Xy[i].estado = RowAt(df, i).estado
            /\ i + out.pasos <= Len(df)
            /\ out.Xy[i].objetivo =
                 (IF RowAt(df, i + out.pasos).estado >= 2 THEN 1 ELSE 0)

\* C4: training on 99 examples fails with the insufficient-data error;
\* training on 100 examples returns a model with accuracy and ROC-AUC in
\* [0,1], whatever the labels.
C4_TrainingGate ==
    out.call \in {"ml_model.entrenar_logreg", "ml_modelos.entrenar_logreg"}
    => /\ Len(df) = MinRows - 1 =>
            out.result = Raise("ValueError", "Historico insuficiente")
       /\ Len(df) = MinRows =>
            /\ out.result.kind = "return"
            /\ out.result.acc = UnitMetric
            /\ out.result.roc = UnitMetric

\* C5: on a history too small to forecast from, each entry point answers
\* "unavailable": it neither raises nor returns a number.
C5_TooSmallIsUnavailable ==
    /\ (Markov /\ Len(df) <= 1) => out.kind = "unavailable"
    /\ (out.call = "get_logreg_model" /\ Len(df) < MinRows)
         => out.result.modelo = None

\* C6: the caller chooses the congested states: for each such set the
\* probability returned is the forecast mass on that set.
CongestedSets == {{2}, {2, 3}}

RECURSIVE Mass(_, _)
Mass(v, S) == IF S = {} THEN Zero
              ELSE LET s == CHOOSE x \in S : TRUE
                   IN  RAdd(At(v, s), Mass(v, S \ {s}))

C6_CallerChoosesCongested ==
    MarkovReturned => \A S \in CongestedSets : out.value = Mass(out.pi_n, S)

\* C7: for the periodic history 0,1,2,3,0,... in which every state departs,
\* the matrix is the cyclic permutation and the forecast after k steps from
\* the last state s is one-hot at (s + k) mod 4.
IsPeriodic(d) ==
    /\ {r.timestamp : r \in Range(d)} = 1..Len(d)
    /\ \A r \in Range(d) : r.estado = (r.timestamp - 1) % 4

CyclicMatrix == LET row(i) == OneHot((i + 1) % 4) IN Vec(row)

C7_PeriodicHistory ==
    (Markov /\ IsPeriodic(df) /\ Len(df) >= 5)
    => LET s == (Len(df) - 1) % 4
           k == out.pasos
       IN  /\ out.kind = "return"
           /\ out.P = CyclicMatrix
           /\ out.pi_n = OneHot((s + k) % 4)
           /\ out.value = (IF (s + k) % 4 = 2 THEN One ELSE Zero)

C7_Witness ==
    /\ Markov /\ IsPeriodic(df) /\ Len(df) >= 5
    /\ df[1].timestamp # 1
    /\ out.kind = "return" /\ out.value = One

\* C8: with one step the forecast is the row of the matrix at the state of
\* the latest observation, and the result is that row's entry for state 2.
C8_OneStepIsRow ==
    (Markov /\ out.pasos = 1 /\ Len(df) >= 1 /\ LatestRow(df).estado \in estados)
    => LET last == LatestRow(df).estado
       IN  /\ out.kind = "return"
           /\ out.pi_n = At(out.P, last)
           /\ out.value = At(At(out.P, last), 2)
           /\ df = ExampleHistory =>
                /\ At(out.P, 0) = <<Rat(2, 3), Rat(1, 3), Zero, Zero>>
                /\ out.pi_n = <<Rat(2, 3), Rat(1, 3), Zero, Zero>>

C8_Witness ==
    /\ Markov /\ out.pasos = 1 /\ df = ExampleHistory
    /\ out.kind = "return" /\ out.value = Zero
    /\ At(out.pi_n, 0) = Rat(2, 3)

\* C10: the result does not depend on the order of the rows: the forecast
\* is the same, and the feature builders return the same multiset of
\* examples, for every permutation of the rows.  (Every call leaves the
\* caller's table as it was: the functions work on df.copy().)
BagOf(seq) == [x \in Range(seq) |-> Cardinality({k \in 1..Len(seq) : seq[k] = x})]

Orders(n) == IF n <= MaxLen THEN Permutations(n) ELSE {[k \in 1..n |-> n + 1 - k]}

C10_RowOrderIrrelevant ==
    \A p \in Orders(Len(df)) :
        /\ Markov => predict_congestion(Shuffled(df, p), out.pasos) = out
        /\ out.call = "ml_model.preparar_features" =>
             BagOf(ml_model_preparar_features(Shuffled(df, p), out.pasos)) = BagOf(out.Xy)
        /\ out.call = "ml_modelos.preparar_features" =>
             BagOf(ml_modelos_preparar_features(Shuffled(df, p), out.pasos)) = BagOf(out.Xy)

(***************************************************************************)
(* Properties of the dashboard (specification SpecApp).                    *)
(***************************************************************************)
\* C9: every forecast is computed from the history current at that call:
\* the model shown was fitted on the rows the file held during the run and
\* so was the table, and a run says "no disponible" only when no model can
\* be had from those rows.
C9_FreshSnapshot ==
    /\ shown.kind = "prediction" =>
          /\ shown.modelo.fit_rows = shown.run_rows
          /\ shown.data_snapshot = shown.run_rows
    /\ shown.kind = "no disponible" =>
          \E r \in get_logreg_model(SubSeq(csv, 1, shown.run_rows)) :
              r.modelo = None

=============================================================================
